---------------------------- MODULE Spec2Model ----------------------------
(***************************************************************************)
(* State-machine model of the oneMail sync core:                           *)
(*   - WebSocketService (server/src/services/webSocketService.ts 1-373):   *)
(*     the session registry `clients`, the handshake, the close handler,   *)
(*     the heartbeat and sendToClient;                                     *)
(*   - the e-mail sync service (same file, 374-899): the registries        *)
(*     `userClients` and `syncStatuses`, startSync / fetchRecentEmails /   *)
(*     startIdleMonitoring, stopSync, the IDLE `exists` and `error`        *)
(*     handlers and the restart timer;                                     *)
(*   - indexEmail of the Elasticsearch service (unnamed/part_007).         *)
(*                                                                         *)
(* The program runs on one Node.js event loop: code between two `await`s   *)
(* runs atomically, and every `await` on I/O is a point where any other    *)
(* callback may run.  Each action below is one such atomic piece.          *)
(***************************************************************************)
EXTENDS Integers, Sequences, FiniteSets, TLC

----------------------------------------------------------------------------
(* Bounds of the model.                                                    *)

MaxStarts == 3
MaxStops == 2
MaxSessions == 2
MaxMsgs == 2
MaxTasks == 2
MaxFaults == 1
MaxTimers == 1
MaxOps == 4

----------------------------------------------------------------------------
(* The accounts of the credential store (prisma.emailAccount rows).        *)

Users == {"u1", "u2"}
Emails == {"a", "b"}

\* getUserTokens(userId): the accounts of a user, in the order returned.
getUserTokens(u) == IF u = "u1" THEN <<"a", "b">> ELSE <<"a">>

Range(s) == {s[i] : i \in 1..Len(s)}

Keys == {k \in Users \X Emails : k[2] \in Range(getUserTokens(k[1]))}

\* The document id built by fetchRecentEmails, the exists handler and
\* indexEmail: `${userId}-${email}-${message.uid}`.
emailId(u, e, uid) == u \o "-" \o e \o "-" \o ToString(uid)

Ids == {emailId(k[1], k[2], n) : k \in Keys, n \in 1..MaxMsgs}

StartIds == 1..MaxStarts
StopIds == 1..MaxStops
SessionIds == 1..MaxSessions
TaskIds == 1..MaxTasks

All == "*"

VARIABLES
  clients,       \* WebSocketService.clients: userId -> session (0: no entry)
  ws,            \* each accepted socket: readyState, handshake position, client record
  userClients,   \* userId -> inner Map email -> ImapClient (insertion ordered)
  syncStatuses,  \* userId -> inner Map email -> status
  detached,      \* inner client maps deleted from userClients, still held by a suspended stopSync
  imap,          \* each startSync call with the ImapFlow client it creates
  stops,         \* stopSync calls suspended at `await clientData.client.logout()`
  timers,        \* restart timers set by the IDLE error handler, per key
  mailbox,       \* number of messages in the INBOX of each key (uids 1..n)
  esIndex,       \* Elasticsearch: document per id ("none": absent)
  tasks,         \* invocations of the `exists` handler in flight
  inserted,      \* history: successful esClient.index calls per id
  emitted,       \* history: new_email frames written per id
  lastOp,        \* history: last external Start / Stop per key
  faults,        \* history: injected failures so far
  ops,           \* history: requests and outside events so far
  published,     \* history: status of the last sync_status frame the registered session got, per key
  down,          \* the gracefulShutdown call and WebSocketService.close()
  cls,           \* the categorizeEmail call: its arguments, position and result
  rest,          \* history: the last request to the email routes and its response
  cred,          \* the clock, the stored credential of one account, a getAccessToken call
  recent,        \* the date filter of a backfill: its cutoff and the message at hand
  oauth          \* the shared OAuth2 client, the account rows and the getAccessToken calls

vars == <<clients, ws, userClients, syncStatuses, detached, imap, stops, timers,
          mailbox, esIndex, tasks, inserted, emitted, lastOp, faults, ops, published, down,
          cls, rest, cred, recent, oauth>>

hubVars == <<clients, ws>>
regVars == <<userClients, syncStatuses, detached>>
mailVars == <<mailbox, esIndex, tasks, inserted, emitted>>
sideVars == <<cls, rest, cred, recent, oauth>>

----------------------------------------------------------------------------
(* Values.                                                                 *)

NoWs == [user |-> "u1", tok |-> "none", ready |-> "unused", pc |-> "none",
         isAlive |-> FALSE, handlers |-> FALSE, code |-> 0, child |-> 0, left |-> <<>>]

NoImap == [user |-> "u1", email |-> "a", pc |-> "unused", conn |-> "none",
           handlers |-> FALSE, bfN |-> 0, bf |-> 0, seen |-> 0]

NoStop == [pc |-> "unused", user |-> "u1", email |-> "a", client |-> 0, ref |-> 0, pos |-> 0]

NoTask == [pc |-> "unused", client |-> 0, uid |-> 0]

\* A string is the sequence of its words, the parts between single spaces
\* (the empty string is <<"">>); the empty sequence stands for undefined.
Undefined == <<>>

NoFirst == [failed |-> FALSE, result |-> "none"]

\* `first`: how an earlier call with the same arguments ended.
NoCall == [pc |-> "idle", subject |-> Undefined, body |-> Undefined,
           answered |-> FALSE, text |-> Undefined, failed |-> FALSE, result |-> "none",
           first |-> NoFirst]

NoClientMap == [has |-> FALSE, ents |-> <<>>]
NoStatusMap == [has |-> FALSE, m |-> [e \in Emails |-> "none"]]

NoDoc == [present |-> FALSE, isRead |-> FALSE]

\* Times in seconds.  No account row; no call.  `at`: when the last call
\* was made; `got`: the expiryDate of the credential it returned.
NoCred == [now |-> 0, stored |-> FALSE, expiryDate |-> 0, pc |-> "idle", at |-> 0, got |-> 0]

\* No request to the email routes yet.
NoReply == [op |-> "none", auth |-> "u1", userId |-> "u1", emailId |-> "none", status |-> 0]

\* gracefulShutdown: not called ("none"), awaiting a stopSync call ("await"),
\* "returned"; the users its loop has visited and the call it awaits (0: one
\* that returned without suspending); whether WebSocketService.close() has run.
NoFilter == [pc |-> "idle", now |-> 0, yesterday |-> 0, started |-> 0, date |-> 0,
             handed |-> FALSE]
NoRow == [stored |-> FALSE, accessToken |-> "none", refreshToken |-> "none", expired |-> FALSE]
NoTokenCall == [pc |-> "idle", sent |-> "none", got |-> "none"]
NoOAuth == [client |-> "none", rows |-> [e \in Emails |-> NoRow],
            calls |-> [e \in Emails |-> NoTokenCall]]
NoDown == [pc |-> "none", visited |-> {}, stop |-> 0, hub |-> FALSE]

Init ==
  /\ clients = [u \in Users |-> 0]
  /\ ws = [s \in SessionIds |-> NoWs]
  /\ userClients = [u \in Users |-> NoClientMap]
  /\ syncStatuses = [u \in Users |-> NoStatusMap]
  /\ detached = [d \in StopIds |-> <<>>]
  /\ imap = [p \in StartIds |-> NoImap]
  /\ stops = [q \in StopIds |-> NoStop]
  /\ timers = [k \in Keys |-> 0]
  /\ mailbox = [k \in Keys |-> 0]
  /\ esIndex = [i \in Ids |-> NoDoc]
  /\ tasks = [t \in TaskIds |-> NoTask]
  /\ inserted = [i \in Ids |-> 0]
  /\ emitted = [i \in Ids |-> 0]
  /\ lastOp = [k \in Keys |-> "none"]
  /\ faults = 0
  /\ ops = 0
  /\ published = [k \in Keys |-> "none"]
  /\ down = NoDown
  /\ cls = NoCall
  /\ rest = NoReply
  /\ cred = NoCred
  /\ recent = NoFilter
  /\ oauth = NoOAuth

----------------------------------------------------------------------------
(* Helpers on the registries.                                              *)

Min(S) == CHOOSE x \in S : \A y \in S : x <= y

\* Lowest unused slot of a pool, 0 when the pool is exhausted.
FreeStart == IF \E p \in StartIds : imap[p].pc = "unused"
             THEN Min({p \in StartIds : imap[p].pc = "unused"}) ELSE 0
FreeStopOf(st) == IF \E q \in StopIds : st[q].pc = "unused"
                  THEN Min({q \in StopIds : st[q].pc = "unused"}) ELSE 0
FreeStop == FreeStopOf(stops)
FreeSession == IF \E s \in SessionIds : ws[s].ready = "unused"
               THEN Min({s \in SessionIds : ws[s].ready = "unused"}) ELSE 0
FreeTask == IF \E t \in TaskIds : tasks[t].pc = "unused"
            THEN Min({t \in TaskIds : tasks[t].pc = "unused"}) ELSE 0

\* Map.get / Map.set / Map.delete on an inner client map kept in insertion
\* order (iteration order of a JavaScript Map).
IndexOf(ents, e) == IF \E i \in 1..Len(ents) : ents[i].email = e
                    THEN Min({i \in 1..Len(ents) : ents[i].email = e}) ELSE 0
MapGet(ents, e) == IF IndexOf(ents, e) = 0 THEN 0 ELSE ents[IndexOf(ents, e)].client
MapSet(ents, e, c) == IF IndexOf(ents, e) = 0
                      THEN Append(ents, [email |-> e, client |-> c])
                      ELSE [ents EXCEPT ![IndexOf(ents, e)].client = c]
MapDelete(ents, e) == SelectSeq(ents, LAMBDA x : x.email # e)

\* syncStatuses.get(userId)!.set(email, {status}) after the has/set guard.
SetStatus(ss, u, e, v) == [ss EXCEPT ![u] = [has |-> TRUE, m |-> [@.m EXCEPT ![e] = v]]]

\* wsService.isUserConnected(userId)
isUserConnected(cl, u) == cl[u] # 0

\* The frame is written: an entry exists and its socket is OPEN.
Written(cl, u) == cl[u] # 0 /\ ws[cl[u]].ready = "open"

\* sendToClient(userId, message): the registry after the call.  No entry:
\* return.  Socket OPEN: send.  Otherwise the entry is deleted.
sendToClient(cl, u) ==
  IF cl[u] = 0 THEN cl
  ELSE IF ws[cl[u]].ready = "open" THEN cl
  ELSE [cl EXCEPT ![u] = 0]

\* `if (wsService && wsService.isUserConnected(userId)) wsService.send...Notification(...)`
notify(cl, u) == IF isUserConnected(cl, u) THEN sendToClient(cl, u) ELSE cl

\* sendSyncStatusNotification(userId, status, email) behind the same guard:
\* the status of the last frame written for the key.
publish(cl, u, e, v) == IF Written(cl, u) THEN [published EXCEPT ![<<u, e>>] = v] ELSE published

\* client.close(): closing a closed connection changes nothing.
closeImap(im, c) == IF im[c].conn = "open" THEN [im EXCEPT ![c].conn = "closed"] ELSE im

Capped(n) == IF n < 2 THEN n + 1 ELSE n

\* An event from outside the server (a request, a peer, a failing network);
\* the model explores MaxOps of them.
Outside == ops < MaxOps /\ ops' = ops + 1

\* A request to the server, the shutdown signal being the last.
Request == Outside /\ down.pc = "none" /\ ~down.hub

----------------------------------------------------------------------------
(* startSync (649-709), fetchRecentEmails (385-498),                       *)
(* startIdleMonitoring (500-647).                                          *)

\* startSync up to its first await (651-671): status 'syncing', notification,
\* then `await getUserTokens(userId)`.  p is the call, cl the session registry
\* as the caller left it.
startSync(p, u, e, cl) ==
  /\ imap' = [imap EXCEPT ![p] = [NoImap EXCEPT !.user = u, !.email = e, !.pc = "cred"]]
  /\ syncStatuses' = SetStatus(syncStatuses, u, e, "syncing")
  /\ published' = publish(cl, u, e, "syncing")
  /\ clients' = notify(cl, u)

\* POST /sync/start/:userId/:email
RestStart(k) ==
  /\ Request
  /\ FreeStart # 0
  /\ startSync(FreeStart, k[1], k[2], clients)
  /\ lastOp' = [lastOp EXCEPT ![k] = "start"]
  /\ UNCHANGED <<ws, userClients, detached, stops, timers, mailVars, faults>>
  /\ UNCHANGED <<down, sideVars>>

\* 671-679, 387-400: getUserTokens and getAccessToken answered with a token,
\* new ImapFlow, `await client.connect()` succeeded.
StartConnect(p) ==
  /\ imap[p].pc = "cred"
  /\ imap' = [imap EXCEPT ![p].pc = "select", ![p].conn = "open"]
  /\ UNCHANGED <<hubVars, regVars, stops, timers, mailVars, lastOp, faults>>
  /\ UNCHANGED ops
  /\ UNCHANGED <<published, down, sideVars>>

\* 403-413: mailboxOpen('INBOX') and the fetch of the messages since yesterday.
StartSelect(p) ==
  /\ imap[p].pc = "select"
  /\ LET n == mailbox[<<imap[p].user, imap[p].email>>] IN
       imap' = [imap EXCEPT ![p].pc = "bf", ![p].bfN = n, ![p].bf = 0, ![p].seen = n]
  /\ UNCHANGED <<hubVars, regVars, stops, timers, mailVars, lastOp, faults>>
  /\ UNCHANGED ops
  /\ UNCHANGED <<published, down, sideVars>>

\* 418-439: the next message of the fetch is handed to checkEmailExists.
\* 492-524: with none left fetchRecentEmails returns, startIdleMonitoring
\* opens the INBOX, records 'idle', notifies and awaits client.idle().
BackfillNext(p) ==
  /\ imap[p].pc = "bf"
  /\ IF imap[p].bf = imap[p].bfN
     THEN /\ imap' = [imap EXCEPT ![p].pc = "idle"]
          /\ syncStatuses' = SetStatus(syncStatuses, imap[p].user, imap[p].email, "idle")
          /\ published' = publish(clients, imap[p].user, imap[p].email, "idle")
          /\ clients' = notify(clients, imap[p].user)
     ELSE /\ imap' = [imap EXCEPT ![p].pc = "bfExists", ![p].bf = @ + 1]
          /\ UNCHANGED <<syncStatuses, clients, published>>
  /\ UNCHANGED <<ws, userClients, detached, stops, timers, mailVars, lastOp, faults>>
  /\ UNCHANGED ops
  /\ UNCHANGED <<down, sideVars>>

\* The check answering that no document is stored.
checkFindsNothing(ix, id) == FALSE

\* checkEmailExists(emailId) of the Elasticsearch service: whether a document
\* is stored under the id.
checkEmailExists(ix, id) == ix[id].present

\* 439-444: checkEmailExists answered.
BackfillExists(p) ==
  /\ imap[p].pc = "bfExists"
  /\ LET id == emailId(imap[p].user, imap[p].email, imap[p].bf) IN
       imap' = [imap EXCEPT ![p].pc = IF checkEmailExists(esIndex, id) THEN "bf" ELSE "bfIndex"]
  /\ UNCHANGED <<hubVars, regVars, stops, timers, mailVars, lastOp, faults>>
  /\ UNCHANGED ops
  /\ UNCHANGED <<published, down, sideVars>>

\* indexEmail (part_007 85-120): esClient.index writes the document under
\* the id, whether or not one is there.
indexEmail(ix, id) == [ix EXCEPT ![id] = [present |-> TRUE, isRead |-> FALSE]]

\* 446-486: categorizeEmail and indexEmail returned; the new_email frame.
BackfillIndex(p) ==
  /\ imap[p].pc = "bfIndex"
  /\ LET u == imap[p].user
         id == emailId(u, imap[p].email, imap[p].bf) IN
       /\ esIndex' = indexEmail(esIndex, id)
       /\ inserted' = [inserted EXCEPT ![id] = Capped(@)]
       /\ emitted' = [emitted EXCEPT ![id] = IF Written(clients, u) THEN Capped(@) ELSE @]
       /\ clients' = notify(clients, u)
  /\ imap' = [imap EXCEPT ![p].pc = "bf"]
  /\ UNCHANGED <<ws, regVars, stops, timers, mailbox, tasks, lastOp, faults>>
  /\ UNCHANGED ops
  /\ UNCHANGED <<published, down, sideVars>>

\* 527-641: idle() returned; the exists and error handlers are registered and
\* the client is stored in userClients.
StartRegistered(p) ==
  /\ imap[p].pc = "idle"
  /\ imap' = [imap EXCEPT ![p].pc = "done", ![p].handlers = TRUE]
  /\ userClients' = [userClients EXCEPT ![imap[p].user] =
                       [has |-> TRUE, ents |-> MapSet(@.ents, imap[p].email, p)]]
  /\ UNCHANGED <<hubVars, syncStatuses, detached, stops, timers, mailVars, lastOp, faults>>
  /\ UNCHANGED ops
  /\ UNCHANGED <<published, down, sideVars>>

\* 494-497, 643-646, 686-708: an await of the start rejected (credential,
\* connect, SELECT, FETCH, IDLE).  startSync's catch records 'error', notifies
\* and rethrows; the client, if one was connected, is not closed by the code
\* (drop: the failure was the connection going down).
StartThrow(p, drop) ==
  /\ imap[p].pc \in {"cred", "select", "bf", "idle"}
  /\ faults < MaxFaults
  /\ faults' = faults + 1
  /\ drop => imap[p].conn = "open"
  /\ imap' = [imap EXCEPT ![p].pc = "failed",
                          ![p].conn = IF drop THEN "closed" ELSE @]
  /\ syncStatuses' = SetStatus(syncStatuses, imap[p].user, imap[p].email, "error")
  /\ published' = publish(clients, imap[p].user, imap[p].email, "error")
  /\ clients' = notify(clients, imap[p].user)
  /\ UNCHANGED <<ws, userClients, detached, stops, timers, mailVars, lastOp>>
  /\ Outside
  /\ UNCHANGED <<down, sideVars>>

\* 606-635: the client's 'error' event: status 'error', client.close(),
\* setTimeout(startSync, 5000).
ImapError(c) ==
  /\ imap[c].conn = "open"
  /\ imap[c].handlers
  /\ faults < MaxFaults
  /\ timers[<<imap[c].user, imap[c].email>>] < MaxTimers
  /\ faults' = faults + 1
  /\ syncStatuses' = SetStatus(syncStatuses, imap[c].user, imap[c].email, "error")
  /\ imap' = closeImap(imap, c)
  /\ timers' = [timers EXCEPT ![<<imap[c].user, imap[c].email>>] = @ + 1]
  /\ UNCHANGED <<hubVars, userClients, detached, stops, mailVars, lastOp>>
  /\ Outside
  /\ UNCHANGED <<published, down, sideVars>>

\* 629-634: the timer fires: startSync(userId, email).
TimerFire(k) ==
  /\ timers[k] > 0
  /\ FreeStart # 0
  /\ timers' = [timers EXCEPT ![k] = @ - 1]
  /\ startSync(FreeStart, k[1], k[2], clients)
  /\ UNCHANGED <<ws, userClients, detached, stops, mailVars, lastOp, faults>>
  /\ UNCHANGED ops
  /\ UNCHANGED <<down, sideVars>>

----------------------------------------------------------------------------
(* stopSync (711-814).                                                     *)
(*                                                                         *)
(* stopSync reads the two inner maps once (719-720) and keeps using these  *)
(* objects after its awaits.  A stop of all accounts ends by deleting the  *)
(* user's entries of userClients and syncStatuses (805-806); a call still  *)
(* suspended then holds maps that are no longer in the registries: its     *)
(* client map moves to `detached` (ref # 0) and its status writes are lost.*)
(* A value of this record is the part of the state stopSync works on.      *)

Sync == [imap |-> imap, stops |-> stops, uc |-> userClients, ss |-> syncStatuses,
         det |-> detached, ret |-> FALSE]

Active(r, q) == r.stops[q].pc # "unused"

\* The inner client map a suspended call holds.
Held(r, q) == IF r.stops[q].ref = 0 THEN r.uc[r.stops[q].user].ents
              ELSE r.det[r.stops[q].ref]

\* userClients.delete(userId); syncStatuses.delete(userId) (805-806), by call
\* self (0: by a call that has not suspended).
DeleteUser(r, u, self) ==
  LET holders == {q \in StopIds : q # self /\ Active(r, q)
                                  /\ r.stops[q].user = u /\ r.stops[q].ref = 0}
      used == {r.stops[q].ref : q \in {x \in StopIds : x # self /\ Active(r, x)}}
      d == Min({x \in StopIds : x \notin used})
  IN [r EXCEPT !.uc[u] = NoClientMap,
               !.ss[u] = NoStatusMap,
               !.det = IF holders = {} THEN @ ELSE [@ EXCEPT ![d] = r.uc[u].ents],
               !.stops = [q \in StopIds |->
                            IF q \in holders THEN [@[q] EXCEPT !.ref = d] ELSE @[q]]]

\* The call q is over; a detached map nobody holds any more is dropped.
Return(r, q) ==
  LET d == r.stops[q].ref
      shared == \E x \in StopIds : x # q /\ Active(r, x) /\ r.stops[x].ref = d
  IN [r EXCEPT !.stops[q] = NoStop,
               !.det = IF d # 0 /\ ~shared THEN [@ EXCEPT ![d] = <<>>] ELSE @,
               !.ret = TRUE]

\* userClientMap.delete(email) (746) on the map call q holds; the loops of
\* 768 running over the same map skip the entry, or have passed it.
DeleteHeld(r, q, e) ==
  LET i == IndexOf(Held(r, q), e)
      u == r.stops[q].user
      d == r.stops[q].ref
      same(x) == Active(r, x) /\ r.stops[x].user = u /\ r.stops[x].ref = d
  IN IF i = 0 THEN r
     ELSE [r EXCEPT !.uc = IF d = 0 THEN [@ EXCEPT ![u].ents = MapDelete(@, e)] ELSE @,
                    !.det = IF d # 0 THEN [@ EXCEPT ![d] = MapDelete(@, e)] ELSE @,
                    !.stops = [x \in StopIds |->
                                 IF same(x) /\ @[x].pc = "all" /\ @[x].pos >= i
                                 THEN [@[x] EXCEPT !.pos = @ - 1] ELSE @[x]]]

\* userStatusMap.set(email, {status: 'stopped'}) (749, 785) on the held map.
SetStopped(r, q) ==
  IF r.stops[q].ref = 0
  THEN [r EXCEPT !.ss = SetStatus(@, r.stops[q].user, r.stops[q].email, "stopped")]
  ELSE r

\* stopSync(userId, email?) up to its first await, on r.  Returns at 722-725
\* when either inner map is missing.  With an email (727-765): the registered
\* client is closed and logout awaited.  Without (766-809): the loop closes
\* the first client and awaits its logout; over an empty map it falls through
\* to the two deletes.
stopSync(r, u, e) ==
  LET q == FreeStopOf(r.stops) IN
  IF ~r.uc[u].has \/ ~r.ss[u].has THEN [r EXCEPT !.ret = TRUE]
  ELSE IF e # All THEN
    IF MapGet(r.uc[u].ents, e) = 0 THEN [r EXCEPT !.ret = TRUE]
    ELSE [r EXCEPT !.imap = closeImap(@, MapGet(r.uc[u].ents, e)),
                   !.stops[q] = [pc |-> "one", user |-> u, email |-> e,
                                 client |-> MapGet(r.uc[u].ents, e), ref |-> 0, pos |-> 0]]
  ELSE IF r.uc[u].ents = <<>> THEN [DeleteUser(r, u, 0) EXCEPT !.ret = TRUE]
  ELSE [r EXCEPT !.imap = closeImap(@, r.uc[u].ents[1].client),
                 !.stops[q] = [pc |-> "all", user |-> u, email |-> r.uc[u].ents[1].email,
                               client |-> r.uc[u].ents[1].client, ref |-> 0, pos |-> 1]]

\* The model can run the call: a call that suspends needs a slot.
CanStop(u, e) ==
  \/ FreeStop # 0
  \/ ~userClients[u].has \/ ~syncStatuses[u].has
  \/ e # All /\ MapGet(userClients[u].ents, e) = 0
  \/ e = All /\ userClients[u].ents = <<>>

\* The registries and processes take the values of r.
Commit(r) ==
  /\ imap' = r.imap
  /\ stops' = r.stops
  /\ userClients' = r.uc
  /\ syncStatuses' = r.ss
  /\ detached' = r.det

\* stopSync(userId, email) called by the application (exported; restartAllSyncs 868).
StopOne(k) ==
  /\ Request
  /\ CanStop(k[1], k[2])
  /\ Commit(stopSync(Sync, k[1], k[2]))
  /\ lastOp' = [lastOp EXCEPT ![k] = "stop"]
  /\ UNCHANGED <<hubVars, timers, mailVars, faults>>
  /\ UNCHANGED <<published, down, sideVars>>

\* POST /sync/stop/:userId: stopSync(userId).
RestStop(u) ==
  /\ Request
  /\ CanStop(u, All)
  /\ Commit(stopSync(Sync, u, All))
  /\ lastOp' = [k \in Keys |-> IF k[1] = u THEN "stop" ELSE lastOp[k]]
  /\ UNCHANGED <<hubVars, timers, mailVars, faults>>
  /\ UNCHANGED <<published, down, sideVars>>

\* 740-762: logout settled (its rejection is caught); delete, 'stopped', notification.
StopOneResume(q) ==
  /\ stops[q].pc = "one"
  /\ LET u == stops[q].user
         e == stops[q].email
         r == Return(SetStopped(DeleteHeld(Sync, q, e), q), q) IN
       /\ Commit(r)
       /\ published' = publish(clients, u, stops[q].email, "stopped")
       /\ clients' = notify(clients, u)
  /\ UNCHANGED <<ws, timers, mailVars, lastOp, faults>>
  /\ UNCHANGED ops
  /\ UNCHANGED <<down, sideVars>>

\* 779-809: logout settled; 'stopped', notification, then the next entry of
\* the map: close it and await its logout, or leave the loop and delete the
\* user's entries.
StopAllResume(q) ==
  /\ stops[q].pc = "all"
  /\ LET u == stops[q].user
         r1 == SetStopped(Sync, q)
         ents == Held(r1, q)
         n == stops[q].pos
         r == IF n < Len(ents)
              THEN [r1 EXCEPT !.imap = closeImap(@, ents[n + 1].client),
                              !.stops[q].email = ents[n + 1].email,
                              !.stops[q].client = ents[n + 1].client,
                              !.stops[q].pos = n + 1]
              ELSE Return(DeleteUser(r1, u, q), q) IN
       /\ Commit(r)
       /\ published' = publish(clients, u, stops[q].email, "stopped")
       /\ clients' = notify(clients, u)
  /\ UNCHANGED <<ws, timers, mailVars, lastOp, faults>>
  /\ UNCHANGED ops
  /\ UNCHANGED <<down, sideVars>>

\* 886-898: the loop of gracefulShutdown over userClients.keys(): stopSync of
\* the next user that has an entry, awaited; with none left it returns.
ShutdownLoop(visited) ==
  LET S == {u \in Users : userClients[u].has /\ u \notin visited} IN
  IF S = {}
  THEN /\ down' = [down EXCEPT !.pc = "returned", !.visited = visited, !.stop = 0]
       /\ UNCHANGED <<imap, stops, regVars>>
  ELSE \E u \in S :
         LET r == stopSync(Sync, u, All) IN
           /\ CanStop(u, All)
           /\ Commit(r)
           /\ down' = [down EXCEPT !.pc = "await", !.visited = visited \cup {u},
                                   !.stop = IF r.ret THEN 0 ELSE FreeStop]

\* index.ts 176-192: SIGINT / SIGTERM call gracefulShutdown().
gracefulShutdown ==
  /\ Request
  /\ ShutdownLoop({})
  /\ lastOp' = [k \in Keys |-> "stop"]
  /\ UNCHANGED <<hubVars, timers, mailVars, faults, published, sideVars>>

\* 890: the awaited stopSync settled: the loop goes on.
ShutdownNext ==
  /\ down.pc = "await"
  /\ IF down.stop = 0 THEN TRUE ELSE stops[down.stop].pc = "unused"
  /\ ShutdownLoop(down.visited)
  /\ UNCHANGED <<hubVars, timers, mailVars, lastOp, faults, published, ops, sideVars>>

----------------------------------------------------------------------------
(* The mailbox, the `exists` handler (527-603) and the index.              *)

KeyOf(c) == <<imap[c].user, imap[c].email>>

\* A message is delivered to the INBOX of k.
Arrive(k) ==
  /\ Request
  /\ mailbox[k] < MaxMsgs
  /\ mailbox' = [mailbox EXCEPT ![k] = @ + 1]
  /\ UNCHANGED <<hubVars, regVars, imap, stops, timers, esIndex, tasks, inserted, emitted,
                 lastOp, faults>>
  /\ UNCHANGED <<published, down, sideVars>>

\* The server announces the new message count on connection c.  With the
\* handler registered (527) it starts `client.fetchOne(`${data.count}`)`;
\* before that the event has no listener.
ImapExists(c) ==
  /\ imap[c].conn = "open"
  /\ imap[c].pc \in {"bf", "bfExists", "bfIndex", "idle", "done"}
  /\ imap[c].seen < mailbox[KeyOf(c)]
  /\ imap[c].handlers => FreeTask # 0
  /\ imap' = [imap EXCEPT ![c].seen = mailbox[KeyOf(c)]]
  /\ tasks' = IF imap[c].handlers
              THEN [tasks EXCEPT ![FreeTask] = [pc |-> "fetchOne", client |-> c,
                                                uid |-> mailbox[KeyOf(c)]]]
              ELSE tasks
  /\ UNCHANGED <<hubVars, regVars, stops, timers, mailbox, esIndex, inserted, emitted,
                 lastOp, faults>>
  /\ UNCHANGED ops
  /\ UNCHANGED <<published, down, sideVars>>

\* 532-551: fetchOne settled: on a closed connection it rejects and the
\* handler's catch ends it; else checkEmailExists is awaited.
TaskFetched(t) ==
  /\ tasks[t].pc = "fetchOne"
  /\ tasks' = IF imap[tasks[t].client].conn = "open"
              THEN [tasks EXCEPT ![t].pc = "exists"]
              ELSE [tasks EXCEPT ![t] = NoTask]
  /\ UNCHANGED <<hubVars, regVars, imap, stops, timers, mailbox, esIndex, inserted, emitted,
                 lastOp, faults>>
  /\ UNCHANGED ops
  /\ UNCHANGED <<published, down, sideVars>>

\* 551-556: checkEmailExists answered.
TaskExists(t) ==
  /\ tasks[t].pc = "exists"
  /\ LET c == tasks[t].client
         id == emailId(imap[c].user, imap[c].email, tasks[t].uid) IN
       tasks' = IF checkEmailExists(esIndex, id) THEN [tasks EXCEPT ![t] = NoTask]
                ELSE [tasks EXCEPT ![t].pc = "index"]
  /\ UNCHANGED <<hubVars, regVars, imap, stops, timers, mailbox, esIndex, inserted, emitted,
                 lastOp, faults>>
  /\ UNCHANGED ops
  /\ UNCHANGED <<published, down, sideVars>>

\* 558-598: categorizeEmail and indexEmail returned; the new_email frame.
TaskIndex(t) ==
  /\ tasks[t].pc = "index"
  /\ LET c == tasks[t].client
         u == imap[c].user
         id == emailId(u, imap[c].email, tasks[t].uid) IN
       /\ esIndex' = indexEmail(esIndex, id)
       /\ inserted' = [inserted EXCEPT ![id] = Capped(@)]
       /\ emitted' = [emitted EXCEPT ![id] = IF Written(clients, u) THEN Capped(@) ELSE @]
       /\ clients' = notify(clients, u)
  /\ tasks' = [tasks EXCEPT ![t] = NoTask]
  /\ UNCHANGED <<ws, regVars, imap, stops, timers, mailbox, lastOp, faults>>
  /\ UNCHANGED ops
  /\ UNCHANGED <<published, down, sideVars>>

\* The failure of one message ending the whole backfill.
backfillFailed(c) == [c EXCEPT !.pc = "failed"]

\* 487-489: the catch inside the `for await` body logs; the loop goes on with
\* the next message.
messageFailed(c) == [c EXCEPT !.pc = "bf"]

\* 439, 487-489: checkEmailExists rejected in the backfill.
BackfillExistsThrows(p) ==
  /\ imap[p].pc = "bfExists"
  /\ faults < MaxFaults
  /\ faults' = faults + 1
  /\ imap' = [imap EXCEPT ![p] = messageFailed(@)]
  /\ UNCHANGED <<hubVars, regVars, stops, timers, mailVars, lastOp>>
  /\ Outside
  /\ UNCHANGED <<published, down, sideVars>>

\* 551, 600-602: checkEmailExists rejected in the exists handler.
TaskExistsThrows(t) ==
  /\ tasks[t].pc = "exists"
  /\ faults < MaxFaults
  /\ faults' = faults + 1
  /\ tasks' = [tasks EXCEPT ![t] = NoTask]
  /\ UNCHANGED <<hubVars, regVars, imap, stops, timers, mailbox, esIndex, inserted, emitted,
                 lastOp>>
  /\ Outside
  /\ UNCHANGED <<published, down, sideVars>>

\* 461-464, 487-489: indexEmail rejected in the backfill (part_007 116-119
\* rethrows): the catch of the loop body logs and the loop goes on with the
\* next message; no frame, no status.
BackfillIndexThrows(p) ==
  /\ imap[p].pc = "bfIndex"
  /\ faults < MaxFaults
  /\ faults' = faults + 1
  /\ imap' = [imap EXCEPT ![p] = messageFailed(@)]
  /\ UNCHANGED <<hubVars, regVars, stops, timers, mailVars, lastOp>>
  /\ Outside
  /\ UNCHANGED <<published, down, sideVars>>

\* 574-577, 600-602: indexEmail rejected in the exists handler: the catch of
\* the handler logs and the handler ends.
TaskIndexThrows(t) ==
  /\ tasks[t].pc = "index"
  /\ faults < MaxFaults
  /\ faults' = faults + 1
  /\ tasks' = [tasks EXCEPT ![t] = NoTask]
  /\ UNCHANGED <<hubVars, regVars, imap, stops, timers, mailbox, esIndex, inserted, emitted,
                 lastOp>>
  /\ Outside
  /\ UNCHANGED <<published, down, sideVars>>

\* updateEmailStatus (part_007 222-241) with {isRead: true}: esClient.update
\* patches an existing document.
updateEmailStatus(id) ==
  /\ Request
  /\ esIndex[id].present
  /\ ~esIndex[id].isRead
  /\ esIndex' = [esIndex EXCEPT ![id].isRead = TRUE]
  /\ UNCHANGED <<hubVars, regVars, imap, stops, timers, mailbox, tasks, inserted, emitted,
                 lastOp, faults>>
  /\ UNCHANGED <<published, down, sideVars>>

----------------------------------------------------------------------------
(* authService.ts: getAccessToken (123-176).                               *)

MaxClock == 8

\* The lifetimes, in seconds, the provider gives an access token.
Lifetimes == {120, 180}

\* Half a minute passes.
ClockTick ==
  /\ cred.now < MaxClock * 30
  /\ cred' = [cred EXCEPT !.now = @ + 30]
  /\ UNCHANGED <<hubVars, regVars, imap, stops, timers, mailVars, lastOp, faults, ops,
                 published, down, cls, rest, recent, oauth>>

\* 40-117: the OAuth callback stores the account row with the expiry_date of
\* the tokens it was given.
storeTokens(life) ==
  /\ ~cred.stored
  /\ cred' = [cred EXCEPT !.stored = TRUE, !.expiryDate = cred.now + life]
  /\ UNCHANGED <<hubVars, regVars, imap, stops, timers, mailVars, lastOp, faults, ops,
                 published, down, cls, rest, recent, oauth>>

\* 123-144, 175: getAccessToken(userId, email) with a row for the email whose
\* refresh token is present: a row with expiryDate <= new Date() is refreshed,
\* any other is returned as it is.
getAccessToken ==
  /\ cred.stored
  /\ cred.pc \in {"idle", "returned", "throw"}
  /\ cred' = IF cred.expiryDate <= cred.now
             THEN [cred EXCEPT !.pc = "refresh", !.at = cred.now]
             ELSE [cred EXCEPT !.pc = "returned", !.at = cred.now, !.got = cred.expiryDate]
  /\ UNCHANGED <<hubVars, regVars, imap, stops, timers, mailVars, lastOp, faults, ops,
                 published, down, cls, rest, recent, oauth>>

\* 151-168, 175: refreshAccessToken answered: the row is updated and returned.
RefreshDone(life) ==
  /\ cred.pc = "refresh"
  /\ cred' = [cred EXCEPT !.pc = "returned", !.expiryDate = cred.now + life,
                          !.got = cred.now + life]
  /\ UNCHANGED <<hubVars, regVars, imap, stops, timers, mailVars, lastOp, faults, ops,
                 published, down, cls, rest, recent, oauth>>

\* 169-172: refreshAccessToken rejected.
RefreshFails ==
  /\ cred.pc = "refresh"
  /\ cred' = [cred EXCEPT !.pc = "throw"]
  /\ UNCHANGED <<hubVars, regVars, imap, stops, timers, mailVars, lastOp, faults, ops,
                 published, down, cls, rest, recent, oauth>>

----------------------------------------------------------------------------
(* getAccessToken for the accounts of one user over the one OAuth2 client  *)
(* of the module (authService.ts 38, 123-176).  A token is named by the    *)
(* account it gives access to.                                             *)

OthersUnchanged ==
  UNCHANGED <<hubVars, regVars, imap, stops, timers, mailVars, lastOp, faults, ops,
              published, down, cls, rest, cred, recent>>

\* 52-121: handleCallback stores the row of the account with its own tokens.
handleCallback(e) ==
  /\ ~oauth.rows[e].stored
  /\ oauth' = [oauth EXCEPT !.rows[e] = [stored |-> TRUE, accessToken |-> e,
                                         refreshToken |-> e, expired |-> FALSE]]
  /\ OthersUnchanged

\* The expiry date of the row passes.
TokenExpires(e) ==
  /\ oauth.rows[e].stored
  /\ ~oauth.rows[e].expired
  /\ oauth.calls[e].pc # "refresh"
  /\ oauth' = [oauth EXCEPT !.rows[e].expired = TRUE]
  /\ OthersUnchanged

\* 123-155, 175: getAccessToken(userId, e).  A row that is not expired is
\* returned.  Else oAuth2Client.setCredentials({access_token, refresh_token})
\* of the row, and refreshAccessToken() sends the refresh token the client
\* holds and is awaited.
getAccessTokenOf(e) ==
  /\ oauth.rows[e].stored
  /\ oauth.calls[e].pc # "refresh"
  /\ oauth' = IF oauth.rows[e].expired
              THEN [oauth EXCEPT !.client = oauth.rows[e].refreshToken,
                                 !.calls[e] = [pc |-> "refresh",
                                               sent |-> oauth.rows[e].refreshToken,
                                               got |-> "none"]]
              ELSE [oauth EXCEPT !.calls[e] = [pc |-> "returned", sent |-> "none",
                                               got |-> oauth.rows[e].accessToken]]
  /\ OthersUnchanged

\* The refresh_token of the credentials refreshAccessToken resolves with.
\* The token endpoint answers a refresh with a new access token for the
\* refresh token sent and, as a rule, no refresh token; the client then
\* either leaves the field empty or fills it from the credentials it holds
\* when the answer arrives.
AnsweredRefreshToken(held) == {"none", held}

\* 155-168, 175: refreshAccessToken answered: the row gets the new access
\* token and `credentials.refresh_token || targetAccount.refreshToken`.
RefreshAnswered(e, refresh_token) ==
  /\ oauth.calls[e].pc = "refresh"
  /\ refresh_token \in AnsweredRefreshToken(oauth.client)
  /\ oauth' = [oauth EXCEPT
       !.rows[e] = [stored |-> TRUE, accessToken |-> oauth.calls[e].sent,
                    refreshToken |-> IF refresh_token # "none" THEN refresh_token
                                     ELSE oauth.rows[e].refreshToken,
                    expired |-> FALSE],
       !.calls[e] = [pc |-> "returned", sent |-> "none", got |-> oauth.calls[e].sent]]
  /\ OthersUnchanged

\* 169-172: refreshAccessToken rejected.
RefreshRejected(e) ==
  /\ oauth.calls[e].pc = "refresh"
  /\ oauth' = [oauth EXCEPT !.calls[e] = [pc |-> "throw", sent |-> "none", got |-> "none"]]
  /\ OthersUnchanged

----------------------------------------------------------------------------
(* The email routes: routes/emails.ts, EmailController.ts, part_007.        *)

\* userAccessMiddleware.ts 41-77: validateEmailAccess lets the request pass
\* when the authenticated user is the user of the path.
validateEmailAccess(auth, userId) == auth = userId

\* part_007 202-220: getEmailById(userId, emailId): esClient.get by id; the
\* id of the document found, "none" for null.
getEmailById(ix, userId, id) == IF ix[id].present THEN id ELSE "none"

\* part_007 245-257: deleteEmail(userId, emailId): esClient.delete by id.
deleteEmail(ix, userId, id) == [ix EXCEPT ![id] = NoDoc]

\* part_007 222-241: updateEmailStatus(userId, emailId, {isRead: true}):
\* esClient.update by id.
patchEmail(ix, userId, id) == [ix EXCEPT ![id].isRead = TRUE]

\* A message of the mailbox of some account is ingested: indexEmail.
Ingested(id) ==
  /\ Request
  /\ ~esIndex[id].present
  /\ esIndex' = indexEmail(esIndex, id)
  /\ inserted' = [inserted EXCEPT ![id] = Capped(@)]
  /\ UNCHANGED <<hubVars, regVars, imap, stops, timers, mailbox, tasks, emitted, lastOp,
                 faults, published, down, sideVars>>

\* The response to a request of user auth on /:userId/:emailId.
Reply(op, auth, userId, id, status) ==
  [op |-> op, auth |-> auth, userId |-> userId, emailId |-> id, status |-> status]

\* routes/emails.ts 16, EmailController.ts 77-110: GET /:userId/:emailId.
GetEmail(auth, userId, id) ==
  /\ Request
  /\ rest' = Reply("get", auth, userId, id,
                   IF ~validateEmailAccess(auth, userId) THEN 403
                   ELSE IF getEmailById(esIndex, userId, id) = "none" THEN 404 ELSE 200)
  /\ UNCHANGED <<hubVars, regVars, imap, stops, timers, mailVars, lastOp, faults,
                 published, down, cls, cred, recent, oauth>>

\* routes/emails.ts 19, EmailController.ts 113-150: PATCH /:userId/:emailId/read
\* with {isRead: true}; esClient.update rejects for a missing document.
MarkEmail(auth, userId, id) ==
  /\ Request
  /\ IF ~validateEmailAccess(auth, userId)
     THEN rest' = Reply("read", auth, userId, id, 403) /\ UNCHANGED esIndex
     ELSE IF ~esIndex[id].present
     THEN rest' = Reply("read", auth, userId, id, 500) /\ UNCHANGED esIndex
     ELSE /\ rest' = Reply("read", auth, userId, id, 200)
          /\ esIndex' = patchEmail(esIndex, userId, id)
  /\ UNCHANGED <<hubVars, regVars, imap, stops, timers, mailbox, tasks, inserted, emitted,
                 lastOp, faults, published, down, cls, cred, recent, oauth>>

\* routes/emails.ts 21, EmailController.ts 195-225: DELETE /:userId/:emailId;
\* esClient.delete rejects for a missing document.
DeleteEmail(auth, userId, id) ==
  /\ Request
  /\ IF ~validateEmailAccess(auth, userId)
     THEN rest' = Reply("delete", auth, userId, id, 403) /\ UNCHANGED esIndex
     ELSE IF ~esIndex[id].present
     THEN rest' = Reply("delete", auth, userId, id, 500) /\ UNCHANGED esIndex
     ELSE /\ rest' = Reply("delete", auth, userId, id, 200)
          /\ esIndex' = deleteEmail(esIndex, userId, id)
  /\ UNCHANGED <<hubVars, regVars, imap, stops, timers, mailbox, tasks, inserted, emitted,
                 lastOp, faults, published, down, cls, cred, recent, oauth>>

----------------------------------------------------------------------------
(* The date filter of the backfill (fetchRecentEmails 406-433).  Times are *)
(* milliseconds.                                                           *)

\* 24 * 60 * 60 * 1000
Day == 86400000

\* The clock readings and message dates explored, around one day.
MaxDrift == 2
Clock == {Day + d : d \in 0..MaxDrift}
NoDate == 0 - 1
Dates == (0..(2 * MaxDrift + 1)) \cup {NoDate}

\* The test with the cutoff itself counted as too old.
beforeOrAtCutoff(emailDate, yesterday) == emailDate <= yesterday

\* 430: `if (emailDate < yesterday)`
beforeCutoff(emailDate, yesterday) == emailDate < yesterday

\* 420: `message.envelope?.date || new Date()`
emailDateOf(date, now) == IF date = NoDate THEN now ELSE date

\* 407: `const yesterday = new Date(Date.now() - 24 * 60 * 60 * 1000)`, once,
\* before the fetch.
BackfillCutoff(now) ==
  /\ recent.pc = "idle"
  /\ recent' = [NoFilter EXCEPT !.pc = "fetch", !.now = now, !.started = now,
                                !.yesterday = now - Day]
  /\ UNCHANGED <<hubVars, regVars, imap, stops, timers, mailVars, lastOp, faults, ops,
                 published, down, cls, rest, cred, oauth>>

\* Time passes while the messages are processed.
BackfillClock ==
  /\ recent.pc \in {"fetch", "message"}
  /\ recent.now < Day + 2 * MaxDrift
  /\ recent' = [recent EXCEPT !.now = @ + 1]
  /\ UNCHANGED <<hubVars, regVars, imap, stops, timers, mailVars, lastOp, faults, ops,
                 published, down, cls, rest, cred, oauth>>

\* 418-433: the next message of the fetch, dated date (NoDate: the envelope
\* has no date): skipped by `continue`, or handed
\* on to checkEmailExists and the rest of the loop body.
BackfillMessage(date) ==
  /\ recent.pc \in {"fetch", "message"}
  /\ LET emailDate == emailDateOf(date, recent.now) IN
       recent' = [recent EXCEPT !.pc = "message", !.date = date,
                                !.handed = ~beforeCutoff(emailDate, recent.yesterday)]
  /\ UNCHANGED <<hubVars, regVars, imap, stops, timers, mailVars, lastOp, faults, ops,
                 published, down, cls, rest, cred, oauth>>

\* 492-493: the fetch is exhausted; fetchRecentEmails returns.
BackfillReturns ==
  /\ recent.pc = "message"
  /\ recent' = [recent EXCEPT !.pc = "returned"]
  /\ UNCHANGED <<hubVars, regVars, imap, stops, timers, mailVars, lastOp, faults, ops,
                 published, down, cls, rest, cred, oauth>>

----------------------------------------------------------------------------
(* WebSocketService (36-356).                                              *)

\* ws.close(code, reason) / ws.terminate(): an OPEN socket starts closing.
closeWs(w, code) == IF w.ready = "open" THEN [w EXCEPT !.ready = "closing", !.code = code]
                    ELSE w

\* 55-81, 88-101: a peer connects with the token of its URL.  No token:
\* verifyClient refuses the upgrade (HTTP 401) and no socket is accepted.
\* verifyToken fails: close 1008.  Else getUserById is awaited.
WsConnect(u, tok) ==
  /\ Request
  /\ FreeSession # 0
  /\ LET s == FreeSession
         w == [NoWs EXCEPT !.user = u, !.tok = tok, !.ready = "open"] IN
       ws' = [ws EXCEPT ![s] =
                CASE tok = "missing" -> [NoWs EXCEPT !.user = u, !.ready = "closed",
                                                     !.pc = "rejected", !.code = 401]
                  [] tok = "invalid" -> [closeWs(w, 1008) EXCEPT !.pc = "rejected", !.tok = "none"]
                  [] OTHER -> [w EXCEPT !.pc = "getUser"]]
  /\ UNCHANGED <<clients, regVars, imap, stops, timers, mailVars, lastOp, faults>>
  /\ UNCHANGED <<published, down, sideVars>>

\* Every session stored under the key of one user.
sharedKey(w) == "u1"

\* 116: `this.clients.set(user.id, client)`: the key is the id of the user the
\* token was verified for.
registryKey(w) == w.user

\* 101-120, 301-306: getUserById answered.  No user: close 1008.  Else the
\* client record {isAlive: true} is stored under the user id and startAutoSync
\* awaits getUserTokens.
AuthUser(s) ==
  /\ ws[s].pc = "getUser"
  /\ IF ws[s].tok = "nouser"
     THEN /\ ws' = [ws EXCEPT ![s] = [closeWs(@, 1008) EXCEPT !.pc = "rejected", !.tok = "none"]]
          /\ UNCHANGED <<clients, published>>
     ELSE /\ ws' = [ws EXCEPT ![s].pc = "tokens", ![s].isAlive = TRUE, ![s].tok = "none"]
          /\ clients' = [clients EXCEPT ![registryKey(ws[s])] = s]
          /\ published' = [k \in Keys |-> IF k[1] = ws[s].user THEN "none" ELSE published[k]]
  /\ UNCHANGED <<regVars, imap, stops, timers, mailVars, lastOp, faults>>
  /\ UNCHANGED ops
  /\ UNCHANGED <<down, sideVars>>

\* 122-133: the 'connection' frame through sendToClient(user.id), then
\* setupClientHandlers(client): message, pong, close and error listeners.
Welcome(s) ==
  /\ clients' = sendToClient(clients, ws[s].user)
  /\ ws' = [ws EXCEPT ![s].pc = "ready", ![s].handlers = TRUE, ![s].child = 0]

\* 313-320: `await startSync(userId, token.email)` for the next account.
AutoStart(s, left) ==
  /\ FreeStart # 0
  /\ startSync(FreeStart, ws[s].user, Head(left), clients)
  /\ ws' = [ws EXCEPT ![s].pc = "autosync", ![s].child = FreeStart, ![s].left = Tail(left)]
  /\ lastOp' = [lastOp EXCEPT ![<<ws[s].user, Head(left)>>] = "start"]

\* 306-315: getUserTokens answered in startAutoSync.
AutoTokens(s) ==
  /\ ws[s].pc = "tokens"
  /\ IF getUserTokens(ws[s].user) = <<>>
     THEN Welcome(s) /\ UNCHANGED <<imap, syncStatuses, lastOp, published>>
     ELSE AutoStart(s, getUserTokens(ws[s].user))
  /\ UNCHANGED <<userClients, detached, stops, timers, mailVars, faults>>
  /\ UNCHANGED ops
  /\ UNCHANGED <<down, sideVars>>

\* 313-324, 120-133: the awaited startSync settled (a rejection is caught at
\* 317): the next account, or after the last one the rest of
\* authenticateConnection.
AutoNext(s) ==
  /\ ws[s].pc = "autosync"
  /\ imap[ws[s].child].pc \in {"done", "failed"}
  /\ IF ws[s].left = <<>>
     THEN Welcome(s) /\ UNCHANGED <<imap, syncStatuses, lastOp, published>>
     ELSE AutoStart(s, ws[s].left)
  /\ UNCHANGED <<userClients, detached, stops, timers, mailVars, faults>>
  /\ UNCHANGED ops
  /\ UNCHANGED <<down, sideVars>>

\* The peer closes the connection (close frame or lost transport).
WsPeerClose(s) ==
  /\ Request
  /\ ws[s].ready = "open"
  /\ ws' = [ws EXCEPT ![s].ready = "closing"]
  /\ UNCHANGED <<clients, regVars, imap, stops, timers, mailVars, lastOp, faults>>
  /\ UNCHANGED <<published, down, sideVars>>

\* The socket is closed and emits 'close'.  With the listener of 158-165
\* installed: stopAutoSync(userId), i.e. stopSync(userId) up to its first
\* await, then clients.delete(userId).
WsClosed(s) ==
  /\ ws[s].ready = "closing"
  /\ ws' = [ws EXCEPT ![s].ready = "closed"]
  /\ IF ws[s].handlers
     THEN /\ CanStop(ws[s].user, All)
          /\ Commit(stopSync(Sync, ws[s].user, All))
          /\ clients' = [clients EXCEPT ![ws[s].user] = 0]
          /\ lastOp' = [k \in Keys |-> IF k[1] = ws[s].user THEN "stop" ELSE lastOp[k]]
     ELSE UNCHANGED <<clients, regVars, imap, stops, lastOp>>
  /\ UNCHANGED <<timers, mailVars, faults>>
  /\ UNCHANGED ops
  /\ UNCHANGED <<published, down, sideVars>>

Registered(s) == \E u \in Users : clients[u] = s

\* The test of 204 the wrong way round.
missedPongInverted(w) == w.isAlive

\* 204: `if (!client.isAlive)`: the flag is set at registration (112) and by
\* the pong listener (154), and cleared by the tick that pings (211).
missedPong(w) == ~w.isAlive

\* 201-215: a heartbeat tick over every registry entry: a client that is not
\* alive is terminated and deleted; the others are marked and pinged.
startHeartbeat ==
  /\ Request
  /\ \E u \in Users : clients[u] # 0
  /\ clients' = [u \in Users |-> IF clients[u] # 0 /\ missedPong(ws[clients[u]])
                                 THEN 0 ELSE clients[u]]
  /\ ws' = [s \in SessionIds |->
              IF ~Registered(s) THEN ws[s]
              ELSE IF missedPong(ws[s]) THEN closeWs(ws[s], 1006)
              ELSE [ws[s] EXCEPT !.isAlive = FALSE]]
  /\ UNCHANGED <<regVars, imap, stops, timers, mailVars, lastOp, faults>>
  /\ UNCHANGED <<published, down, sideVars>>

\* 153-156: the peer's PONG reaches the listener installed by setupClientHandlers.
WsPong(s) ==
  /\ ws[s].ready = "open"
  /\ ws[s].handlers
  /\ ~ws[s].isAlive
  /\ ws' = [ws EXCEPT ![s].isAlive = TRUE]
  /\ UNCHANGED <<clients, regVars, imap, stops, timers, mailVars, lastOp, faults>>
  /\ UNCHANGED ops
  /\ UNCHANGED <<published, down, sideVars>>

\* 288-298: disconnectUser(userId).
disconnectUser(u) ==
  /\ Request
  /\ clients[u] # 0
  /\ CanStop(u, All)
  /\ Commit(stopSync(Sync, u, All))
  /\ ws' = [ws EXCEPT ![clients[u]] = closeWs(@, 1000)]
  /\ clients' = [clients EXCEPT ![u] = 0]
  /\ lastOp' = [k \in Keys |-> IF k[1] = u THEN "stop" ELSE lastOp[k]]
  /\ UNCHANGED <<timers, mailVars, faults>>
  /\ UNCHANGED <<published, down, sideVars>>

\* 347-350: the stopSync calls of one forEach over the users S, each up to its
\* first await.
RECURSIVE stopEach(_, _)
stopEach(r, S) ==
  IF S = {} THEN r
  ELSE LET u == CHOOSE x \in S : TRUE IN stopEach(stopSync(r, u, All), S \ {u})

\* 339-355: WebSocketService.close(): the heartbeat is cleared; for every
\* registry entry stopAutoSync(userId) is called without being awaited and
\* the socket is closed with 1001; the registry is cleared; the server stops
\* accepting connections.
close ==
  /\ Request
  /\ LET S == {u \in Users : clients[u] # 0} IN
       /\ Cardinality({u \in S : /\ userClients[u].has /\ syncStatuses[u].has
                                   /\ userClients[u].ents # <<>>})
            <= Cardinality({q \in StopIds : stops[q].pc = "unused"})
       /\ Commit(stopEach(Sync, S))
       /\ ws' = [s \in SessionIds |-> IF Registered(s) THEN closeWs(ws[s], 1001) ELSE ws[s]]
       /\ lastOp' = [k \in Keys |-> IF k[1] \in S THEN "stop" ELSE lastOp[k]]
  /\ clients' = [u \in Users |-> 0]
  /\ down' = [down EXCEPT !.hub = TRUE]
  /\ UNCHANGED <<timers, mailVars, faults, published, sideVars>>

----------------------------------------------------------------------------
(* aiCategorizationService.ts                                              *)

MaxSubject == 1
MaxBody == 2

\* 8-15
VALID_CATEGORIES ==
  <<"Interested", "Meeting Booked", "Not Interested", "Spam", "Out of Office", "Uncategorized">>

Categories == {VALID_CATEGORIES[i] : i \in DOMAIN VALID_CATEGORIES}

\* The words of a category name.
CategoryWords(c) ==
  CASE c = "Meeting Booked" -> <<"Meeting", "Booked">>
    [] c = "Not Interested" -> <<"Not", "Interested">>
    [] c = "Out of Office" -> <<"Out", "of", "Office">>
    [] OTHER -> <<c>>

\* The words subjects and bodies are made of.
InputWords == {"", "Interested", "not", "meeting", "unsubscribe", "vacation", "thanks"}

TextsUpTo(n) == UNION {[1..m -> InputWords] : m \in 1..n}

\* The texts the remote model answers with.
Responses ==
  {CategoryWords(c) : c \in Categories}
    \cup {<<"">>, <<"hello">>, <<"Interested", "">>, <<"", "Spam">>,
          <<"not", "interested", "thanks">>, <<"Meeting">>}

\* String.prototype.toLowerCase, word by word.
lower(w) ==
  CASE w = "Interested" -> "interested"
    [] w = "Meeting" -> "meeting"
    [] w = "Booked" -> "booked"
    [] w = "Not" -> "not"
    [] w = "Spam" -> "spam"
    [] w = "Out" -> "out"
    [] w = "Office" -> "office"
    [] w = "Uncategorized" -> "uncategorized"
    [] OTHER -> w

toLowerCase(s) == [i \in DOMAIN s |-> lower(s[i])]

\* String.prototype.trim: the spaces at both ends go, i.e. the empty words.
trim(s) ==
  LET nz == {i \in DOMAIN s : s[i] # ""} IN
    IF nz = {} THEN <<"">>
    ELSE SubSeq(s, Min(nz), CHOOSE i \in nz : \A j \in nz : j <= i)

\* Word x occurs in, begins, ends word w (by their spelling).
Inside(x, w) == x = w \/ <<x, w>> \in {<<"thank", "thanks">>}
StartsWith(w, x) == x = w \/ <<x, w>> \in {<<"thank", "thanks">>}
EndsWith(w, x) == x = w

\* String.prototype.includes: the keyword kw, a string without outer
\* spaces, occurs in s.
includes(s, kw) ==
  \E i \in 1..(Len(s) - Len(kw) + 1) :
    IF Len(kw) = 1 THEN Inside(kw[1], s[i])
    ELSE /\ EndsWith(s[i], kw[1])
         /\ StartsWith(s[i + Len(kw) - 1], kw[Len(kw)])
         /\ \A j \in 2..(Len(kw) - 1) : s[i + j - 1] = kw[j]

\* 89-120: validateCategory(response).
validateCategory(response) ==
  LET cleanResponse == trim(toLowerCase(response))
      has(kw) == includes(cleanResponse, kw) IN
    IF \E c \in Categories : cleanResponse = toLowerCase(CategoryWords(c))
    THEN CHOOSE c \in Categories : cleanResponse = toLowerCase(CategoryWords(c))
    ELSE IF has(<<"interested">>) /\ ~has(<<"not">>) THEN "Interested"
    ELSE IF has(<<"meeting">>) \/ has(<<"booked">>) \/ has(<<"schedule">>) THEN "Meeting Booked"
    ELSE IF has(<<"not", "interested">>) \/ has(<<"decline">>) \/ has(<<"reject">>)
      THEN "Not Interested"
    ELSE IF has(<<"spam">>) \/ has(<<"promotional">>) \/ has(<<"unsubscribe">>) THEN "Spam"
    ELSE IF has(<<"out", "of", "office">>) \/ has(<<"vacation">>) \/ has(<<"away">>)
      THEN "Out of Office"
    ELSE "Uncategorized"

\* `${x}` in a template literal.
Str(x) == IF x = Undefined THEN <<"undefined">> ELSE x

\* 130, 136, 142, 148, 154: the keyword arrays of fallbackCategorization.
Keywords(c) ==
  CASE c = "Spam" -> {<<"unsubscribe">>, <<"promotional">>, <<"offer">>, <<"discount">>,
                      <<"limited", "time">>, <<"act", "now">>}
    [] c = "Out of Office" -> {<<"out", "of", "office">>, <<"vacation">>, <<"away">>,
                               <<"automatic", "reply">>, <<"auto-reply">>}
    [] c = "Meeting Booked" -> {<<"meeting">>, <<"call">>, <<"schedule">>, <<"appointment">>,
                                <<"booked">>, <<"calendar">>}
    [] c = "Not Interested" -> {<<"not", "interested">>, <<"decline">>, <<"reject">>,
                                <<"no", "thank">>, <<"pass">>}
    [] c = "Interested" -> {<<"interested">>, <<"yes">>, <<"sounds", "good">>,
                            <<"let's", "do">>, <<"count", "me", "in">>}
    [] OTHER -> {}

\* 127: `${subject} ${body}`.toLowerCase().
Content(subject, body) == toLowerCase(Str(subject) \o Str(body))

\* The meeting test of 143 moved before the spam test of 131.
fallbackMeetingFirst(subject, body) ==
  LET some(c) == \E kw \in Keywords(c) : includes(Content(subject, body), kw) IN
    IF some("Meeting Booked") THEN "Meeting Booked"
    ELSE IF some("Spam") THEN "Spam"
    ELSE IF some("Out of Office") THEN "Out of Office"
    ELSE IF some("Not Interested") THEN "Not Interested"
    ELSE IF some("Interested") THEN "Interested"
    ELSE "Uncategorized"

\* 126-161: fallbackCategorization(subject, body, from).
fallbackCategorization(subject, body) ==
  LET some(c) == \E kw \in Keywords(c) : includes(Content(subject, body), kw) IN
    IF some("Spam") THEN "Spam"
    ELSE IF some("Out of Office") THEN "Out of Office"
    ELSE IF some("Meeting Booked") THEN "Meeting Booked"
    ELSE IF some("Not Interested") THEN "Not Interested"
    ELSE IF some("Interested") THEN "Interested"
    ELSE "Uncategorized"

\* A catch block that throws again.
catchRethrows(subject, body) == "throw"

\* 73-82: the catch block of categorizeEmail.
catchGeminiError(subject, body) == fallbackCategorization(subject, body)

\* 28-36: categorizeEmail(subject, body, from) is called.  body.substring and
\* subject.substring throw a TypeError inside the try block when the value
\* is undefined; otherwise the prompt is sent and the answer awaited.
enter(c, subject, body) ==
  IF subject = Undefined \/ body = Undefined
  THEN [c EXCEPT !.pc = "returned", !.subject = subject, !.body = body,
                 !.result = catchGeminiError(subject, body)]
  ELSE [c EXCEPT !.pc = "remote", !.subject = subject, !.body = body]

categorizeEmail(subject, body) ==
  /\ cls.pc = "idle"
  /\ cls' = enter(cls, subject, body)
  /\ UNCHANGED <<hubVars, regVars, imap, stops, timers, mailVars, lastOp, faults, ops,
                 published, down, rest, cred, recent, oauth>>

\* 58-71: generateContent answers; `result.text?.trim() || ''` is validated.
GeminiAnswers(text) ==
  /\ cls.pc = "remote"
  /\ cls' = [cls EXCEPT !.pc = "returned", !.answered = TRUE, !.text = text,
                        !.result = validateCategory(IF text = Undefined THEN <<"">>
                                                    ELSE trim(text))]
  /\ UNCHANGED <<hubVars, regVars, imap, stops, timers, mailVars, lastOp, faults, ops,
                 published, down, rest, cred, recent, oauth>>

\* 58-61, 73: generateContent rejects.
GeminiFails ==
  /\ cls.pc = "remote"
  /\ cls' = [cls EXCEPT !.pc = "returned", !.failed = TRUE,
                        !.result = catchGeminiError(cls.subject, cls.body)]
  /\ UNCHANGED <<hubVars, regVars, imap, stops, timers, mailVars, lastOp, faults, ops,
                 published, down, rest, cred, recent, oauth>>

\* categorizeEmail is called once more for a message whose first call ended
\* in the catch block after the remote call failed.
categorizeAgain ==
  /\ cls.pc = "returned"
  /\ cls.failed
  /\ cls.first = NoFirst
  /\ cls' = enter([NoCall EXCEPT !.first = [failed |-> cls.failed, result |-> cls.result]],
                  cls.subject, cls.body)
  /\ UNCHANGED <<hubVars, regVars, imap, stops, timers, mailVars, lastOp, faults, ops,
                 published, down, rest, cred, recent, oauth>>

----------------------------------------------------------------------------

\* The users whose requests and connections the specification explores.
Tenants == {"u1"}
TenantKeys == {k \in Keys : k[1] \in Tenants}

\* Requests to the sync service.
SyncOutside ==
  \/ \E k \in TenantKeys : RestStart(k)
  \/ \E k \in TenantKeys : StopOne(k)
  \/ \E u \in Tenants : RestStop(u)
  \/ gracefulShutdown

\* Continuations of suspended startSync calls, IMAP errors, timers.
StartInside ==
  \/ \E p \in StartIds : StartConnect(p)
  \/ \E p \in StartIds : StartSelect(p)
  \/ \E p \in StartIds : BackfillNext(p)
  \/ \E p \in StartIds : StartRegistered(p)
  \/ \E p \in StartIds, drop \in BOOLEAN : StartThrow(p, drop)
  \/ \E c \in StartIds : ImapError(c)
  \/ \E k \in Keys : TimerFire(k)

\* Continuations of suspended stopSync calls.
StopInside ==
  \/ \E q \in StopIds : StopOneResume(q)
  \/ \E q \in StopIds : StopAllResume(q)
  \/ ShutdownNext

\* Mail delivered to the mailboxes, and edits of indexed mail.
MailOutside ==
  \/ \E k \in TenantKeys : Arrive(k)
  \/ \E i \in Ids : updateEmailStatus(i)

\* The ingestion of messages by the backfill and by the exists handler.
MailInside ==
  \/ \E p \in StartIds : BackfillExists(p)
  \/ \E p \in StartIds : BackfillIndex(p)
  \/ \E c \in StartIds : ImapExists(c)
  \/ \E t \in TaskIds : TaskFetched(t)
  \/ \E t \in TaskIds : TaskExists(t)
  \/ \E t \in TaskIds : TaskIndex(t)

\* WebSocket peers and the administration of sessions.
HubOutside ==
  \/ \E u \in Tenants, tok \in {"valid", "invalid", "nouser", "missing"} : WsConnect(u, tok)
  \/ \E s \in SessionIds : WsPeerClose(s)
  \/ startHeartbeat
  \/ \E u \in Tenants : disconnectUser(u)
  \/ close

\* Continuations of the handshake and socket events.
HubInside ==
  \/ \E s \in SessionIds : AuthUser(s)
  \/ \E s \in SessionIds : AutoTokens(s)
  \/ \E s \in SessionIds : AutoNext(s)
  \/ \E s \in SessionIds : WsClosed(s)
  \/ \E s \in SessionIds : WsPong(s)

\* The sync service alone: REST start and stop, IMAP errors, restarts.
SyncNext ==
  \/ SyncOutside
  \/ StartInside
  \/ StopInside

SpecSync == Init /\ [][SyncNext]_vars

\* The sync service with mail arriving.
MailNext ==
  \/ SyncOutside
  \/ MailOutside
  \/ StartInside
  \/ StopInside
  \/ MailInside

SpecMail == Init /\ [][MailNext]_vars

\* The WebSocket service driving the sync service: every stop it issues is a
\* stop of all accounts of the user.
HubNext ==
  \/ HubOutside
  \/ HubInside
  \/ StartInside
  \/ \E q \in StopIds : StopAllResume(q)

SpecHub == Init /\ [][HubNext]_vars

\* Elasticsearch refusing an insert or a lookup.
IndexFaults ==
  \/ \E p \in StartIds : BackfillIndexThrows(p)
  \/ \E t \in TaskIds : TaskIndexThrows(t)
  \/ \E p \in StartIds : BackfillExistsThrows(p)
  \/ \E t \in TaskIds : TaskExistsThrows(t)

\* Sessions whose auto-start ingests the mail of the user: the WebSocket
\* service, the sync service and the mailbox together.
FeedNext ==
  \/ \E u \in Tenants : WsConnect(u, "valid")
  \/ \E s \in SessionIds : WsPeerClose(s)
  \/ \E k \in TenantKeys : Arrive(k)
  \/ \E s \in SessionIds : AuthUser(s)
  \/ \E s \in SessionIds : AutoTokens(s)
  \/ \E s \in SessionIds : AutoNext(s)
  \/ \E s \in SessionIds : WsClosed(s)
  \/ StartInside
  \/ \E q \in StopIds : StopAllResume(q)
  \/ MailInside
  \/ IndexFaults

SpecFeed == Init /\ [][FeedNext]_vars

\* The date filter of one backfill, every clock and every date around the
\* cutoff.
FilterNext ==
  \/ \E now \in Clock : BackfillCutoff(now)
  \/ BackfillClock
  \/ \E date \in Dates : BackfillMessage(date)
  \/ BackfillReturns

SpecFilter == Init /\ [][FilterNext]_vars

\* The peer of a registered session closes the connection.
LeaveRegistered(s) == Registered(s) /\ WsPeerClose(s)

\* Sessions that are closed by their peers once they are registered, and the
\* agents their auto-start runs.
LeaveNext ==
  \/ \E u \in Tenants : WsConnect(u, "valid")
  \/ \E s \in SessionIds : AuthUser(s)
  \/ \E s \in SessionIds : AutoTokens(s)
  \/ \E s \in SessionIds : AutoNext(s)
  \/ \E s \in SessionIds : LeaveRegistered(s)
  \/ \E s \in SessionIds : WsClosed(s)
  \/ StartInside
  \/ \E q \in StopIds : StopAllResume(q)

SpecLeave == Init /\ [][LeaveNext]_vars

\* The accounts of one user calling getAccessToken over the shared client.
OAuthNext ==
  \/ \E e \in Emails : handleCallback(e)
  \/ \E e \in Emails : TokenExpires(e)
  \/ \E e \in Emails : getAccessTokenOf(e)
  \/ \E e \in Emails, t \in Emails \cup {"none"} : RefreshAnswered(e, t)
  \/ \E e \in Emails : RefreshRejected(e)

SpecOAuth == Init /\ [][OAuthNext]_vars

\* The sessions of every user, their agents and their mail.
FanoutNext ==
  \/ \E u \in Users : WsConnect(u, "valid")
  \/ \E s \in SessionIds : WsPeerClose(s)
  \/ \E k \in Keys : Arrive(k)
  \/ \E s \in SessionIds : AuthUser(s)
  \/ \E s \in SessionIds : AutoTokens(s)
  \/ \E s \in SessionIds : AutoNext(s)
  \/ \E s \in SessionIds : WsClosed(s)
  \/ \E p \in StartIds : StartConnect(p)
  \/ \E p \in StartIds : StartSelect(p)
  \/ \E p \in StartIds : BackfillNext(p)
  \/ \E p \in StartIds : StartRegistered(p)
  \/ \E p \in StartIds, drop \in BOOLEAN : StartThrow(p, drop)
  \/ \E q \in StopIds : StopAllResume(q)
  \/ MailInside

SpecFanout == Init /\ [][FanoutNext]_vars

\* The credential store of one account, with time passing.
TokenNext ==
  \/ ClockTick
  \/ \E life \in Lifetimes : storeTokens(life)
  \/ getAccessToken
  \/ \E life \in Lifetimes : RefreshDone(life)
  \/ RefreshFails

SpecToken == Init /\ [][TokenNext]_vars

\* The email routes over an index that ingestion fills.
StoreNext ==
  \/ \E i \in Ids : Ingested(i)
  \/ \E auth \in Users, u \in Users, i \in Ids : GetEmail(auth, u, i)
  \/ \E auth \in Users, u \in Users, i \in Ids : MarkEmail(auth, u, i)
  \/ \E auth \in Users, u \in Users, i \in Ids : DeleteEmail(auth, u, i)

SpecStore == Init /\ [][StoreNext]_vars

\* The values of an argument of the call that can be made: texts of up to n
\* words, or undefined.
Arguments(n) == IF cls.pc = "idle" THEN TextsUpTo(n) \cup {Undefined} ELSE {}

\* The classifier alone: one call on every subject and body, every answer.
ClassifyNext ==
  \/ \E subject \in Arguments(MaxSubject), body \in Arguments(MaxBody) :
       categorizeEmail(subject, body)
  \/ \E text \in Responses \cup {Undefined} : GeminiAnswers(text)
  \/ GeminiFails
  \/ categorizeAgain

SpecClassify == Init /\ [][ClassifyNext]_vars

Next ==
  \/ SyncOutside
  \/ MailOutside
  \/ HubOutside
  \/ StartInside
  \/ StopInside
  \/ MailInside
  \/ HubInside
  \/ IndexFaults
  \/ FilterNext
  \/ OAuthNext
  \/ ClassifyNext
  \/ StoreNext
  \/ TokenNext

Spec == Init /\ [][Next]_vars

----------------------------------------------------------------------------
(* Properties.                                                             *)

\* The status recorded for a key ("none": no entry).
Status(k) == syncStatuses[k[1]].m[k[2]]

\* The client registered for a key in userClients (0: none).
Agent(k) == MapGet(userClients[k[1]].ents, k[2])

\* The startSync calls of a key that have not settled.
InFlight(k) == {p \in StartIds : KeyOf(p) = k /\ imap[p].pc \notin {"unused", "done", "failed"}}

\* The connected clients of a key whose exists and error handlers are live.
LiveClients(k) == {p \in StartIds : KeyOf(p) = k /\ imap[p].conn = "open" /\ imap[p].handlers}

\* C1: in every reachable state each (userId, email) has at most one
\* connected IMAP client with live handlers.
C1_AtMostOneAgent == \A k \in Keys : Cardinality(LiveClients(k)) <= 1

\* C2: the index insert for the id of a message succeeds at most once and at
\* most one new_email frame is written for it, however often the message is
\* handed to ingestion.
C2_IngestOnce == \A id \in Ids : inserted[id] <= 1 /\ emitted[id] <= 1

\* Nothing is in flight: every startSync and stopSync call has settled, no
\* exists handler runs and no restart timer is pending.
Quiescent ==
  /\ \A p \in StartIds : imap[p].pc \in {"unused", "done", "failed"}
  /\ \A q \in StopIds : stops[q].pc = "unused"
  /\ \A t \in TaskIds : tasks[t].pc = "unused"
  /\ \A k \in Keys : timers[k] = 0

\* C3: once every operation and timer has finished (and no await failed),
\* the keys with a running agent are the keys whose last operation was Start;
\* a key whose last operation was Stop has no agent and no open connection.
C3_LastOpWins ==
  (Quiescent /\ faults = 0) =>
    \A k \in Keys :
      /\ lastOp[k] = "start" <=> (Agent(k) # 0 /\ imap[Agent(k)].conn = "open")
      /\ lastOp[k] = "stop" => LiveClients(k) = {}

\* Another session of the user of s is the registered one and its socket is open.
OtherLive(s) ==
  \E t \in SessionIds : /\ t # s
                        /\ clients[ws[s].user] = t
                        /\ ws[t].ready = "open"

\* C4: when a session closes while another live session of the same user
\* remains, the user's syncs are not stopped: the close changes no IMAP
\* client, no stopSync call and no registry of the sync service.
C4_CloseKeepsSyncs ==
  [][\A s \in SessionIds :
       (ws[s].ready = "closing" /\ ws'[s].ready = "closed" /\ OtherLive(s))
         => /\ imap' = imap
            /\ stops' = stops
            /\ userClients' = userClients
            /\ syncStatuses' = syncStatuses]_vars

\* C5: when a new connection of a user is registered in place of a prior
\* session whose socket is open, the prior socket is closed with code 1000.
C5_ReplaceCloses ==
  [][\A u \in Users :
       (/\ clients[u] # 0
        /\ clients'[u] # 0
        /\ clients'[u] # clients[u]
        /\ ws[clients[u]].ready = "open")
         => /\ ws'[clients[u]].ready \in {"closing", "closed"}
            /\ ws'[clients[u]].code = 1000]_vars

\* C6: an entry leaves the registry only when the socket of its session is
\* no longer open; an open, registered session stays registered.
C6_RemovedOnlyWhenClosed ==
  [][\A u \in Users :
       (clients[u] # 0 /\ clients'[u] = 0) => ws'[clients[u]].ready # "open"]_vars

\* C7: a Start for a key whose agent is registered, connected and idle
\* returns without starting anything: no new client, no status change.
C7_SecondStartNoop ==
  [][\A k \in TenantKeys :
       (/\ Agent(k) # 0
        /\ imap[Agent(k)].conn = "open"
        /\ Status(k) = "idle"
        /\ RestStart(k))
         => /\ imap' = imap
            /\ syncStatuses' = syncStatuses]_vars

\* Nothing of the user of k is in flight.
Quiet(k) ==
  /\ \A p \in StartIds : imap[p].user = k[1] => imap[p].pc \in {"unused", "done", "failed"}
  /\ \A q \in StopIds : stops[q].pc = "unused"
  /\ \A j \in Keys : j[1] = k[1] => timers[j] = 0

\* C8: a Stop of a key, issued while nothing of the user is in flight, that
\* returns without awaiting leaves no agent registered for the key.
C8_StopLeavesNoAgent ==
  [][\A k \in TenantKeys :
       (Quiet(k) /\ StopOne(k) /\ stops' = stops)
         => MapGet(userClients'[k[1]].ents, k[2]) = 0]_vars

\* C9: on an id that is present in the index no insert succeeds and the
\* stored record keeps its fields.
C9_InsertConflict ==
  [][\A id \in Ids :
       esIndex[id].present =>
         /\ inserted'[id] = inserted[id]
         /\ esIndex[id].isRead => esIndex'[id].isRead]_vars

\* C10: a key whose status is 'stopped', with no startSync call of the key
\* in flight, keeps that status (or loses its entry) in every step that is
\* not a new Start request for the key.
C10_StoppedIsTerminal ==
  [][\A k \in TenantKeys :
       (Status(k) = "stopped" /\ InFlight(k) = {})
         => \/ Status(k)' \in {"stopped", "none"} /\ InFlight(k)' = {}
            \/ RestStart(k)]_vars

\* C11: while the user's registered session has an open socket, a step that
\* changes the recorded status of a key writes a sync_status frame carrying
\* the new status.
C11_ChangePublished ==
  [][\A k \in Keys :
       (Status(k)' # Status(k) /\ Status(k)' # "none" /\ Written(clients, k[1]))
         => published'[k] = Status(k)']_vars

\* The state machine of an agent as a subscriber sees it (a: the status of
\* the last frame, "none" before the first; b: the status of the next).
Follows(a, b) ==
  \/ a = "none"
  \/ b = "syncing" /\ a \in {"error", "stopped"}
  \/ b = "idle" /\ a = "syncing"
  \/ b = "error" /\ a \in {"syncing", "idle"}
  \/ b = "stopped"

\* C12: the statuses a session is sent for a key follow the state machine:
\* Idle only after Syncing, Syncing only first or after Error or Stopped.
C12_PublishedInOrder ==
  [][\A k \in Keys :
       (published'[k] # published[k] /\ published'[k] # "none")
         => Follows(published[k], published'[k])]_vars

\* C13: a key that was started and not stopped is not left in Error with
\* nothing in flight and no restart scheduled: from such a state no step of
\* the server can bring it back to Idle.
C13_ErrorRecovers ==
  \A k \in Keys : (Quiescent /\ lastOp[k] = "start") => Status(k) # "error"

\* C14: once gracefulShutdown has returned no IMAP connection is open, no
\* client is registered, no startSync call is in flight and no restart is
\* scheduled.
C14_ShutdownLeavesNothing ==
  down.pc = "returned" =>
    /\ \A p \in StartIds : imap[p].conn # "open"
    /\ \A k \in Keys : Agent(k) = 0 /\ InFlight(k) = {} /\ timers[k] = 0

\* C15: a socket that the server closes for shutdown (code 1001) has by then
\* been sent the status stopped for every key of its user that had a
\* registered client.
C15_StoppedBeforeClose ==
  [][\A s \in SessionIds :
       (ws[s].ready = "open" /\ ws'[s].ready # "open" /\ ws'[s].code = 1001)
         => \A k \in Keys : (k[1] = ws[s].user /\ Agent(k) # 0)
                              => published'[k] = "stopped"]_vars

\* C16: a heartbeat tick terminates and removes every registered session
\* whose flag no pong has set again since the tick that pinged it; every
\* other registered session stays registered, its socket as it was, pinged
\* with its flag cleared.
C16_HeartbeatTick ==
  [][startHeartbeat =>
       \A s \in SessionIds : Registered(s) =>
         IF ws[s].isAlive
         THEN /\ clients'[ws[s].user] = s
              /\ ws'[s] = [ws[s] EXCEPT !.isAlive = FALSE]
         ELSE /\ clients'[ws[s].user] = 0
              /\ ws'[s].ready # "open"
              /\ ws[s].ready = "open" => ws'[s].code = 1006]_vars

\* A registered session that a tick found with its flag cleared: terminated
\* and out of the registry.
C16_Witness ==
  \E s \in SessionIds :
    /\ ws[s].code = 1006
    /\ ws[s].ready # "open"
    /\ clients[ws[s].user] = 0

\* C17: the 'close' event of a session that disconnectUser (close code 1000)
\* or the heartbeat (1006) already removed from the registry changes nothing
\* when a later session of the user is registered: the registry keeps that
\* session and no stopSync call is made.
C17_LateCloseHarmless ==
  [][\A s \in SessionIds :
       (/\ ws[s].ready = "closing" /\ ws'[s].ready = "closed"
        /\ ws[s].code \in {1000, 1006}
        /\ clients[ws[s].user] # 0)
         => /\ clients' = clients
            /\ stops' = stops
            /\ imap' = imap
            /\ userClients' = userClients
            /\ syncStatuses' = syncStatuses]_vars

\* Every connection of user u has run its handshake to the end and its
\* socket is closed.
Settled(u) ==
  \A s \in SessionIds :
    ws[s].user = u => /\ ws[s].ready \in {"unused", "closed"}
                      /\ ws[s].pc \in {"none", "ready", "rejected"}

\* C18: once everything has settled, a user whose sessions are all gone from
\* the registry, none of them closed by disconnectUser (1000) or by the
\* shutdown (1001), has no registered client with an open IMAP connection.
C18_NoAgentWithoutSession ==
  \A u \in Users :
    (/\ Quiescent
     /\ Settled(u)
     /\ clients[u] = 0
     /\ \A s \in SessionIds : ws[s].user = u => ws[s].code \notin {1000, 1001})
      => \A k \in Keys : k[1] = u => (Agent(k) = 0 \/ imap[Agent(k)].conn # "open")

\* C19: a connection refused for its token (missing, failing verification,
\* or of no existing user) has been closed with code 1008 (unless its peer
\* closed it first: no code), is not in the registry and has started no
\* startSync call.
C19_RejectedWith1008 ==
  \A s \in SessionIds :
    ws[s].pc = "rejected" =>
      /\ ws[s].code \in {0, 1008}
      /\ ws[s].ready # "open"
      /\ ~Registered(s)
      /\ ws[s].child = 0 /\ ~ws[s].handlers

\* C20: a categorizeEmail call that has returned has returned one of the six
\* categories and nothing thrown; when the remote call failed, the category
\* is the keyword fallback of the call's subject and body.
C20_AlwaysACategory ==
  cls.pc = "returned" =>
    /\ cls.result \in {"Interested", "Meeting Booked", "Not Interested", "Spam",
                       "Out of Office", "Uncategorized"}
    /\ cls.failed => cls.result = fallbackCategorization(cls.subject, cls.body)

\* The remote call failed on a message with a spam keyword in its body.
C20_Witness ==
  /\ cls.pc = "returned"
  /\ cls.failed
  /\ cls.body = <<"thanks", "unsubscribe">>
  /\ cls.result = "Spam"

\* The category whose name the answer is, trimmed and without regard to
\* case ("none": the answer names no category).
Named(text) ==
  LET clean == trim(toLowerCase(IF text = Undefined THEN <<"">> ELSE text)) IN
    IF \E c \in Categories : clean = toLowerCase(CategoryWords(c))
    THEN CHOOSE c \in Categories : clean = toLowerCase(CategoryWords(c))
    ELSE "none"

\* C21: when the remote model has answered, the result is the category the
\* answer names, and with an answer that names none it is the keyword
\* fallback of the call's subject and body.
C21_AnswerOrFallback ==
  (cls.pc = "returned" /\ cls.answered) =>
    cls.result = IF Named(cls.text) # "none" THEN Named(cls.text)
                 ELSE fallbackCategorization(cls.subject, cls.body)

\* The order in which the fallback tries the categories.
Priority == <<"Spam", "Out of Office", "Meeting Booked", "Not Interested", "Interested">>

\* The first category of Priority with a keyword occurring in the
\* lower-cased subject and body; Uncategorized with none.
FirstMatch(subject, body) ==
  LET hit == {i \in DOMAIN Priority :
                \E kw \in Keywords(Priority[i]) : includes(Content(subject, body), kw)} IN
    IF hit = {} THEN "Uncategorized" ELSE Priority[Min(hit)]

\* C22: the result of a call whose remote call failed is the first category
\* in the order Spam, Out of Office, Meeting Booked, Not Interested,
\* Interested with a keyword in the lower-cased subject and body, and
\* Uncategorized if there is none; an earlier failed call for the same message
\* had the same result.
C22_FallbackFirstMatch ==
  (cls.pc = "returned" /\ cls.failed) =>
    /\ cls.result = FirstMatch(cls.subject, cls.body)
    /\ cls.first.failed => cls.first.result = cls.result

\* The remote call failed twice on a message with a meeting keyword and a
\* spam keyword: Spam both times.
C22_Witness ==
  /\ cls.pc = "returned"
  /\ cls.failed
  /\ cls.first.failed
  /\ cls.body = <<"meeting", "unsubscribe">>
  /\ cls.result = "Spam"

\* The user whose message a document id names.
Owner(id) == CHOOSE u \in Users : \E e \in Emails, n \in 1..MaxMsgs : id = emailId(u, e, n)

\* C23: a request to read, mark or delete by id that passes the access check
\* and names a stored document of another user is answered 404 and changes
\* no document.
C23_OnlyOwnDocuments ==
  [][(/\ rest' # rest
      /\ rest'.status # 403
      /\ esIndex[rest'.emailId].present
      /\ Owner(rest'.emailId) # rest'.auth)
       => (rest'.status = 404 /\ esIndex' = esIndex)]_vars

\* C24: the credential a getAccessToken call returned expires at least 60
\* seconds after the time of the call.
C24_FreshFor60s ==
  cred.pc = "returned" => cred.got >= cred.at + 60


\* C25: when the credential fetch of a start attempt is rejected (no
\* credential for the key, or the refresh refused), the attempt ends with the
\* status of the key 'error', no IMAP connection of the key open, none
\* registered for it, and no restart timer pending for it.
C25_FailedStartLeavesNothing ==
  [][\A p \in StartIds :
       (imap[p].pc = "cred" /\ imap'[p].pc = "failed") =>
         LET u == imap[p].user
             e == imap[p].email IN
           /\ syncStatuses'[u].has
           /\ syncStatuses'[u].m[e] = "error"
           /\ \A c \in StartIds :
                (imap'[c].user = u /\ imap'[c].email = e) => imap'[c].conn # "open"
           /\ MapGet(userClients'[u].ents, e) = 0
           /\ timers'[<<u, e>>] = 0]_vars


\* The document id of the message a backfill or an exists handler is at.
BackfillId(p) == emailId(imap[p].user, imap[p].email, imap[p].bf)
TaskId(t) == emailId(imap[tasks[t].client].user, imap[tasks[t].client].email, tasks[t].uid)

\* C26: a new_email frame for a message is written only by the step in which
\* the insert of that message returned, with the document in the index; a
\* message that checkEmailExists finds in the index is skipped without a
\* frame; a rejected insert writes no frame, and neither of the two changes
\* the status, the connection or the timers of the agent.
C26_EventOnlyAfterInsert ==
  [][/\ \A i \in Ids :
          emitted'[i] # emitted[i] =>
            /\ esIndex'[i].present
            /\ inserted'[i] > 0
            /\ faults' = faults
            /\ \/ \E p \in StartIds : imap[p].pc = "bfIndex" /\ BackfillId(p) = i
               \/ \E t \in TaskIds : tasks[t].pc = "index" /\ TaskId(t) = i
     /\ \A p \in StartIds :
          (imap[p].pc = "bfExists" /\ imap'[p].pc # "bfExists" /\ esIndex[BackfillId(p)].present) =>
            /\ imap'[p] = [imap[p] EXCEPT !.pc = "bf"]
            /\ UNCHANGED <<emitted, inserted, syncStatuses, timers>>
     /\ \A t \in TaskIds :
          (tasks[t].pc = "exists" /\ tasks'[t] # tasks[t] /\ esIndex[TaskId(t)].present) =>
            /\ tasks'[t] = NoTask
            /\ UNCHANGED <<emitted, inserted, syncStatuses, timers, imap>>
     /\ \A p \in StartIds :
          (imap[p].pc = "bfIndex" /\ imap'[p].pc # "bfIndex" /\ faults' # faults) =>
            /\ imap'[p] = [imap[p] EXCEPT !.pc = "bf"]
            /\ UNCHANGED <<emitted, inserted, esIndex, syncStatuses, timers>>
     /\ \A t \in TaskIds :
          (tasks[t].pc = "index" /\ tasks'[t] # tasks[t] /\ faults' # faults) =>
            UNCHANGED <<emitted, inserted, esIndex, syncStatuses, timers, imap>>]_vars

\* A session saw one message announced once; the one fault was a rejected
\* insert (no start failed, no connection went down), and a backfill went on
\* past its message to the end.
C26_Witness ==
  /\ faults = 1
  /\ \E i \in Ids : emitted[i] = 1 /\ inserted[i] = 1 /\ esIndex[i].present
  /\ \E p \in StartIds : imap[p].pc = "done" /\ imap[p].bf = 1 /\ imap[p].conn = "open"
  /\ \A p \in StartIds : imap[p].pc # "failed" /\ imap[p].conn # "closed"


\* C27: a start attempt that finishes after a stop of its key was issued
\* while it was starting (the stop is the last request for the key; no fault
\* and so no restart timer is involved) leaves no connection of the key open
\* and none registered.
C27_NoZombieAfterStop ==
  [][\A p \in StartIds :
       (/\ imap[p].pc \in {"cred", "select", "bf", "bfExists", "bfIndex", "idle"}
        /\ imap'[p].pc \in {"done", "failed"}
        /\ lastOp[KeyOf(p)] = "stop"
        /\ faults' = 0) =>
         /\ \A c \in StartIds : KeyOf(c) = KeyOf(p) => imap'[c].conn # "open"
         /\ MapGet(userClients'[imap[p].user].ents, imap[p].email) = 0]_vars


\* C28: while the auto-start of an authenticated, registered session is
\* still running, no sync_status frame has been written to the session (its
\* connection frame, sent when the auto-start is over, would not be the
\* first) and its pong, close and error handlers are installed.
C28_ConnectionFrameFirst ==
  \A s \in SessionIds :
    (ws[s].pc = "autosync" /\ clients[ws[s].user] = s) =>
      /\ \A k \in Keys : k[1] = ws[s].user => published[k] = "none"
      /\ ws[s].handlers


\* An agent of the key is running: its client is registered and connected.
Running(u, e) == /\ MapGet(userClients[u].ents, e) # 0
                 /\ imap[MapGet(userClients[u].ents, e)].conn = "open"

\* C29: the auto-start of a session makes no startSync call (which would set
\* the status to 'syncing', connect and backfill again) for a key whose agent
\* is running.
C29_EnsureLeavesRunning ==
  [][\A p \in StartIds :
       (/\ imap[p].pc = "unused"
        /\ imap'[p].pc = "cred"
        /\ \E s \in SessionIds : ws'[s] # ws[s] /\ ws'[s].pc = "autosync" /\ ws'[s].child = p) =>
         ~Running(imap'[p].user, imap'[p].email)]_vars


\* C30: when the server announces a message count to an agent whose exists
\* handler is registered, every message that arrived since the count the
\* agent knew is fetched by the handler run the announcement starts, also
\* when the count grew by more than one.
C30_AllNewFetched ==
  [][\A c \in StartIds :
       (imap[c].handlers /\ imap'[c].seen > imap[c].seen) =>
         \A uid \in (imap[c].seen + 1)..imap'[c].seen :
           \E t \in TaskIds : /\ tasks'[t] # tasks[t]
                              /\ tasks'[t].pc = "fetchOne"
                              /\ tasks'[t].client = c
                              /\ tasks'[t].uid = uid]_vars


\* C31: the ingestions of one agent do not overlap: no two runs of the
\* exists handler of one connection are together in the part that follows
\* the fetch (exists check, classification, insert, notification).
C31_OneAtATime ==
  \A t1, t2 \in TaskIds :
    (/\ t1 # t2
     /\ tasks[t1].pc \in {"exists", "index"}
     /\ tasks[t2].pc \in {"exists", "index"}) =>
      tasks[t1].client # tasks[t2].client


C33_TransientInsertRetried ==
  [][faults' < 3 =>
       /\ \A p \in StartIds :
            (imap[p].pc = "bfIndex" /\ imap'[p].pc # "bfIndex") =>
              esIndex'[BackfillId(p)].present
       /\ \A t \in TaskIds :
            (tasks[t].pc = "index" /\ tasks'[t].pc # "index") =>
              esIndex'[TaskId(t)].present]_vars


\* C34: a rejected exists check or insert of one message changes nothing of
\* the agent (status, connection, handlers, registry, timers): the backfill
\* goes on with its next message at the same position, and a handler run
\* ends leaving the handlers of its connection in place.
C34_MessageFailureContained ==
  [][/\ \A p \in StartIds :
          (imap[p].pc \in {"bfExists", "bfIndex"} /\ imap'[p].pc # imap[p].pc
           /\ faults' # faults) =>
            /\ imap'[p] = [imap[p] EXCEPT !.pc = "bf"]
            /\ UNCHANGED <<syncStatuses, userClients, timers, published, esIndex, emitted>>
     /\ \A t \in TaskIds :
          (tasks[t].pc \in {"exists", "index"} /\ tasks'[t] # tasks[t]
           /\ faults' # faults) =>
            /\ tasks'[t] = NoTask
            /\ UNCHANGED <<imap, syncStatuses, userClients, timers, published, esIndex,
                           emitted>>]_vars

\* The first message of a backfill was abandoned on a fault and the second
\* was stored; the agent went on to idle, registered and connected.
C34_Witness ==
  /\ faults = 1
  /\ \E p \in StartIds :
       /\ imap[p].pc = "done" /\ imap[p].conn = "open" /\ imap[p].handlers
       /\ imap[p].bfN = 2 /\ imap[p].bf = 2
       /\ ~esIndex[emailId(imap[p].user, imap[p].email, 1)].present
       /\ esIndex[emailId(imap[p].user, imap[p].email, 2)].present
       /\ syncStatuses[imap[p].user].m[imap[p].email] = "idle"
  /\ \A p \in StartIds : imap[p].pc # "failed" /\ imap[p].conn # "closed"


\* 848-858: getActiveEmailAccounts(): the keys of the inner maps of userClients.
getActiveEmailAccounts ==
  {k \in Keys : userClients[k[1]].has /\ IndexOf(userClients[k[1]].ents, k[2]) # 0}

\* C35: with no stopSync call in progress, every client stored in
\* userClients, and so every account reported by getActiveEmailAccounts, is a
\* connection that has not been closed.
C35_RegisteredIsOpen ==
  (\A q \in StopIds : stops[q].pc = "unused") =>
    \A k \in getActiveEmailAccounts :
      imap[MapGet(userClients[k[1]].ents, k[2])].conn # "closed"


\* C36: the recorded status and the registry agree: a key whose status is
\* 'idle' has a client registered in userClients.
C36_IdleIsRegistered ==
  \A k \in Keys :
    (syncStatuses[k[1]].has /\ syncStatuses[k[1]].m[k[2]] = "idle") =>
      k \in getActiveEmailAccounts


\* C37: the heartbeat terminates (code 1006) only a session whose pong
\* listener is installed, so that a missing pong is one the peer did not
\* send: a session still in its auto-start, whose pongs nobody receives, is
\* not terminated.
C37_HeartbeatSparesAnswering ==
  [][\A s \in SessionIds :
       (ws[s].ready = "open" /\ ws'[s].ready # "open" /\ ws'[s].code = 1006) =>
         ws[s].handlers]_vars


\* C38: the only session of a user, closed by its peer (also during its
\* auto-start), is in the end out of the registry and the agents started for
\* it are stopped: once the handshake has run to its end and no call, timer
\* or fault is left, the session is not registered and no IMAP connection of
\* the user is open.
C38_ClosedSessionCleansUp ==
  \A s \in SessionIds :
    (/\ ws[s].ready = "closed" /\ ws[s].pc = "ready" /\ ws[s].code = 0
     /\ \A s2 \in SessionIds \ {s} : ws[s2].ready = "unused"
     /\ Quiescent
     /\ faults = 0
     /\ ~down.hub)
      => /\ clients[ws[s].user] # s
         /\ \A c \in StartIds : imap[c].user = ws[s].user => imap[c].conn # "open"


\* C39: the access token a getAccessToken call returns for an account is a
\* token of that account, also when calls for several accounts refresh
\* through the one OAuth2 client at the same time.
C39_TokenOfTheAccount ==
  \A e \in Emails : oauth.calls[e].pc = "returned" => oauth.calls[e].got = e


\* C40: a sync_status or new_email frame about a user is written to the
\* session registered under that user, and this session was authenticated
\* as that user; every registry entry is a session of the user of its key.
C40_FramesToOwnSession ==
  [][/\ \A u \in Users : clients'[u] # 0 => ws'[clients'[u]].user = u
     /\ \A k \in Keys :
          (published'[k] # published[k] /\ published'[k] # "none") =>
            \E s \in SessionIds : /\ s \in {clients[k[1]], clients'[k[1]]}
                                  /\ ws'[s].user = k[1]
     /\ \A i \in Ids :
          emitted'[i] # emitted[i] =>
            /\ clients[Owner(i)] # 0
            /\ ws[clients[Owner(i)]].user = Owner(i)]_vars

\* Sessions of two users are registered, and each has been written a frame
\* about its own user: a new_email frame for u1, a sync_status frame for u2.
C40_Witness ==
  /\ clients["u1"] # 0 /\ clients["u2"] # 0
  /\ \E i \in Ids : Owner(i) = "u1" /\ emitted[i] > 0
  /\ published[<<"u2", "a">>] # "none"

=============================================================================
